---- MODULE Spec2Model ----
(***************************************************************************)
(* Low-rank registration (lowrr): the multi-resolution driver gray_images, *)
(* the ADMM iteration step, the affine algebra on motion parameters and    *)
(* the callers that output the motion vector.                              *)
(*                                                                         *)
(* Numbers are exact rationals <<n, d>> (d > 0, lowest terms): the real    *)
(* number arithmetic of the f32 code, without rounding.  The numerical     *)
(* kernels that live outside registration.rs (SVD, Cholesky, bilinear      *)
(* sampling) are inputs of a step: their results are drawn from small      *)
(* sets, as functions of the image content they are computed from.         *)
(***************************************************************************)
EXTENDS Integers, Sequences, FiniteSets, TLC

(* ------------------------------ bounds -------------------------------- *)
MaxK == 2          \* largest number of images in a stack
MaxLevels == 2     \* largest config.levels
MaxIter == 1       \* largest config.max_iterations

(* --------------------------- rational numbers ------------------------- *)
Abs(n) == IF n < 0 THEN -n ELSE n

RECURSIVE GCD(_, _)
GCD(a, b) == IF b = 0 THEN a ELSE GCD(b, a % b)

Rat(n, d) ==
    LET g == GCD(Abs(n), Abs(d))
        s == IF d < 0 THEN -1 ELSE 1
    IN  <<(s * n) \div g, (s * d) \div g>>

RInt(n) == <<n, 1>>
RZero == <<0, 1>>
ROne == <<1, 1>>
RAdd(a, b) == IF a[2] = 1 /\ b[2] = 1 THEN <<a[1] + b[1], 1>>
              ELSE Rat(a[1] * b[2] + b[1] * a[2], a[2] * b[2])
RSub(a, b) == IF a[2] = 1 /\ b[2] = 1 THEN <<a[1] - b[1], 1>>
              ELSE Rat(a[1] * b[2] - b[1] * a[2], a[2] * b[2])
RMul(a, b) == IF a[2] = 1 /\ b[2] = 1 THEN <<a[1] * b[1], 1>>
              ELSE Rat(a[1] * b[1], a[2] * b[2])
RDiv(a, b) == Rat(a[1] * b[2], a[2] * b[1])
RLt(a, b) == a[1] * b[2] < b[1] * a[2]
RLe(a, b) == ~RLt(b, a)
RAbs(a) == <<Abs(a[1]), a[2]>>

(* --------------------------- affine algebra --------------------------- *)
\* Vector6 of parameters (p0..p5 are indices 1..6 here).
Vec6(p0, p1, p2, p3, p4, p5) ==
    <<RInt(p0), RInt(p1), RInt(p2), RInt(p3), RInt(p4), RInt(p5)>>

Vector6_zeros == Vec6(0, 0, 0, 0, 0, 0)

\* projection_mat: parameters -> 3x3 matrix, rows of columns.
projection_mat(params) ==
    << <<RAdd(ROne, params[1]), params[3], params[5]>>,
       <<params[2], RAdd(ROne, params[4]), params[6]>>,
       <<RZero, RZero, ROne>> >>

\* projection_params: 3x3 matrix -> parameters (m11-1, m21, m12, m22-1, m13, m23).
projection_params(mat) ==
    << RSub(mat[1][1], ROne), mat[2][1], mat[1][2],
       RSub(mat[2][2], ROne), mat[1][3], mat[2][3] >>

\* Matrix3 product (the * of nalgebra).
MatMul(a, b) ==
    [r \in 1..3 |-> [c \in 1..3 |->
        RAdd(RAdd(RMul(a[r][1], b[1][c]), RMul(a[r][2], b[2][c])),
             RMul(a[r][3], b[3][c]))]]

Minor(m, r1, r2, c1, c2) ==
    RSub(RMul(m[r1][c1], m[r2][c2]), RMul(m[r1][c2], m[r2][c1]))

Determinant(m) ==
    RAdd(RSub(RMul(m[1][1], Minor(m, 2, 3, 2, 3)),
              RMul(m[1][2], Minor(m, 2, 3, 1, 3))),
         RMul(m[1][3], Minor(m, 2, 3, 1, 2)))

NoInverse == <<>>

\* Matrix3::try_inverse: None when the determinant is zero, else adjugate / det.
try_inverse(m) ==
    LET det == Determinant(m) IN
    IF det = RZero THEN NoInverse
    ELSE << << RDiv(Minor(m, 2, 3, 2, 3), det),
               RDiv(RSub(RZero, Minor(m, 1, 3, 2, 3)), det),
               RDiv(Minor(m, 1, 2, 2, 3), det) >>,
            << RDiv(RSub(RZero, Minor(m, 2, 3, 1, 3)), det),
               RDiv(Minor(m, 1, 3, 1, 3), det),
               RDiv(RSub(RZero, Minor(m, 1, 2, 1, 3)), det) >>,
            << RDiv(Minor(m, 2, 3, 1, 2), det),
               RDiv(RSub(RZero, Minor(m, 1, 3, 1, 2)), det),
               RDiv(Minor(m, 1, 2, 1, 2), det) >> >>

Identity3 == projection_mat(Vector6_zeros)

(* ------------------------------ inputs -------------------------------- *)
\* Image contents.  "flat" is an image without any gradient; "a" and "b"
\* are two different textured images.
Images == {"flat", "a", "b"}

\* The pixel of a level that stands for the rows of the N x K matrices.
RepPixel == <<0, 0>>

\* interpolation::linear at a real position of an image: the flat image has
\* the same value everywhere, the textured ones change away from the origin.
linear(x, y, img) ==
    CASE img = "flat" -> RInt(255)
      [] img = "a" -> IF x = RZero /\ y = RZero THEN RInt(255) ELSE RZero
      [] img = "b" -> IF x = RZero /\ y = RZero THEN RZero ELSE RInt(255)

\* What hessian.cholesky() and the solve give: None, or the step parameters.
Fail == [chol |-> FALSE, step |-> Vector6_zeros]
Solved(d) == [chol |-> TRUE, step |-> d]
D_zero == Solved(Vector6_zeros)
D_affine == Solved(Vec6(1, 1, 0, 0, 1, 2))      \* invertible, all kinds of terms
D_singular == Solved(Vec6(-1, 0, 0, 0, 0, 0))   \* projection_mat of it is singular

\* Results of forwards_compositional_step an image content can produce:
\* the solution of the normal equations, or Fail when the Hessian has no
\* Cholesky factorization (always the case without gradient: H = 0).
GNOutcomes(img) ==
    CASE img = "flat" -> {Fail}
      [] img = "a" -> {Fail, D_affine}
      [] img = "b" -> {D_zero, D_affine, D_singular}

\* Entries the recomposed low-rank matrix can take.
AValues == {RZero, ROne}

ThresholdSet == {RZero, <<1, 2>>}
LambdaSet == {1}
RhoSet == {1}

Configs ==
    [ do_image_correction : BOOLEAN,
      lambda : LambdaSet,
      rho : RhoSet,
      max_iterations : 0..MaxIter,
      threshold : ThresholdSet,
      levels : 1..MaxLevels ]

Stacks == UNION {[1..k -> Images] : k \in 0..MaxK}

\* Who runs the registration: the command line program, the wasm object, or
\* a direct call of the library function.
Callers == {"cli", "wasm", "lib"}

\* args.crop: none, or the frame (x1, y1, x2, y2).
NoCrop == [kind |-> "NoCrop", x1 |-> 0, y1 |-> 0, x2 |-> 0, y2 |-> 0]
Area(x1, y1, x2, y2) == [kind |-> "Area", x1 |-> x1, y1 |-> y1, x2 |-> x2, y2 |-> y2]
Crops == {NoCrop, Area(1, 2, 3, 4)}

(* ------------------------------- state -------------------------------- *)
VARIABLES
    config,        \* Config of the run
    imgs,          \* the stack: content of each image
    pc,            \* position of gray_images: "start", "for", "while", "done"
    level,         \* the level the for loop is at (levels still to run: 0..level)
    motion_vec,    \* motion_vec of gray_images
    loop_state,    \* State of the level loop
    continuation,  \* Continue of the level loop
    result,        \* what gray_images gave to the caller
    caller,        \* who called
    output,        \* what the caller gave to the user
    hist,          \* history: what the run did, for the properties
    cli,           \* the command line program from its arguments to its exit
    wasm,          \* the Lowrr object of the wasm library
    call           \* one call of a function of the library: inputs and result

vars == <<config, imgs, pc, level, motion_vec, loop_state, continuation, result,
          caller, output, hist, cli, wasm, call>>

\* What a run of gray_images does not touch.
front == <<cli, wasm, call>>

imgs_count == Len(imgs)
Cols == 1..imgs_count

NoState == [nb_iter |-> 0, imgs_registered |-> <<>>, old_imgs_a |-> <<>>,
            errors |-> <<>>, lagrange_mult_rho |-> <<>>, motion_vec |-> <<>>]

NoResult == [kind |-> "none"]
Ok(m) == [kind |-> "Ok", motion |-> m]
Panic(msg) == [kind |-> "panic", msg |-> msg]

(* ------------------------- matrices (one row) ------------------------- *)
DMatrix_zeros(k) == [i \in 1..k |-> RZero]
MAdd(a, b) == [i \in DOMAIN a |-> RAdd(a[i], b[i])]
MSub(a, b) == [i \in DOMAIN a |-> RSub(a[i], b[i])]

\* (variant: values within |alpha| of 0 become 0, the others are kept)
shrink_hard(alpha, x) ==
    LET al == <<Abs(alpha[1]), alpha[2]>> IN
    IF x[1] >= 0
    THEN (IF RLt(al, x) THEN x ELSE RZero)
    ELSE (IF RLt(x, <<-al[1], al[2]>>) THEN x ELSE RZero)

\* (variant: negative values are moved by |alpha| without the bound at 0)
shrink_unbounded(alpha, x) ==
    LET al == <<Abs(alpha[1]), alpha[2]>> IN
    IF x[1] >= 0
    THEN (LET v == RSub(x, al) IN IF RLt(v, RZero) THEN RZero ELSE v)
    ELSE RAdd(x, al)

\* shrink: values toward 0 by |alpha|.
shrink(alpha, x) ==
    LET al == <<Abs(alpha[1]), alpha[2]>> IN
    IF x[1] >= 0
    THEN (LET v == RSub(x, al) IN IF RLt(v, RZero) THEN RZero ELSE v)
    ELSE (LET v == RAdd(x, al) IN IF RLt(RZero, v) THEN RZero ELSE v)

RECURSIVE SumSqr(_, _)
SumSqr(m, i) == IF i = 0 THEN RZero ELSE RAdd(RMul(m[i], m[i]), SumSqr(m, i - 1))

\* norm_sqr: sum of the squared entries.
norm_sqr(m) == SumSqr(m, Len(m))

\* norm(a - old) / 1e-12.max(norm(old)) < threshold, decided on the squares.
\* With entries that are multiples of 1/255 a norm is 0 or above 1e-12, and
\* a quotient by 1e-12 is 0 or above every threshold of ThresholdSet.
ResidualBelow(imgs_a, old_imgs_a, threshold) ==
    LET num == norm_sqr(MSub(imgs_a, old_imgs_a))
        den == norm_sqr(old_imgs_a)
    IN  /\ RLt(RZero, threshold)
        /\ IF den = RZero THEN num = RZero
           ELSE RLt(num, RMul(RMul(threshold, threshold), den))

\* project_f32: column i is image i sampled at the position its motion sends
\* the pixel to, scaled by inv_max = 1 / 255.
project_f32(images, motions) ==
    [i \in 1..Len(motions) |->
        LET motion_mat == projection_mat(motions[i])
            x == RInt(RepPixel[1])
            y == RInt(RepPixel[2])
            new_x == RAdd(RAdd(RMul(motion_mat[1][1], x), RMul(motion_mat[1][2], y)),
                          motion_mat[1][3])
            new_y == RAdd(RAdd(RMul(motion_mat[2][1], x), RMul(motion_mat[2][2], y)),
                          motion_mat[2][3])
        IN  RMul(<<1, 255>>, linear(new_x, new_y, images[i]))]

(* ------------------------------ gray_images --------------------------- *)
\* levels_run: the levels whose loop was started, in order;
\* step_calls: calls of step at the current level; level_final: the motion
\* of the loop state when the last finished level stopped; last_gn, residuals:
\* the Gauss-Newton results and residuals of the last call of step;
\* last_stop: how that call ended; cap_hit: some level stopped at the cap.
NoHist == [levels_run |-> <<>>, step_calls |-> 0, level_final |-> <<>>,
           last_gn |-> <<>>, residuals |-> <<>>, last_stop |-> "none",
           cap_hit |-> FALSE]

NoOutput == [kind |-> "none"]

\* The program, the object and the function call when they are not in use.
NoCli == [pc |-> "none"]
NoWasm == [pc |-> "none"]
NoCall == [op |-> "none"]

Init ==
    /\ config \in Configs
    /\ imgs \in Stacks
    /\ pc = "start"
    /\ level = 0
    /\ motion_vec = <<>>
    /\ loop_state = NoState
    /\ continuation = "Stop"
    /\ result = NoResult
    /\ caller \in Callers
    /\ output = NoOutput
    /\ hist = NoHist
    /\ cli = NoCli
    /\ wasm = NoWasm
    /\ call = NoCall

\* The number of levels of the transposed multires_imgs: transpose of an
\* empty list of pyramids is empty, else there is one entry per level.
LevelsCount == IF imgs_count = 0 THEN 0 ELSE config.levels

\* Pyramids, transposition and the initial motion vector.
\* (variant: the loop starts one level too low)
FirstLevel_skip == LevelsCount - 2

\* The for loop is reversed: it starts at the last level.
FirstLevel == LevelsCount - 1

Prepare ==
    /\ pc = "start"
    /\ UNCHANGED front
    /\ caller = "lib" \/ imgs_count > 0
    /\ motion_vec' = [i \in Cols |-> Vector6_zeros]
    /\ level' = FirstLevel
    /\ pc' = "for"
    /\ UNCHANGED <<config, imgs, loop_state, continuation, result, caller,
                   output, hist>>

\* (variant: every parameter is doubled)
AdaptMotion_all(motion) == [k \in 1..6 |-> RMul(RInt(2), motion[k])]

\* "motion_vec is adapted when changing level": both translations doubled.
AdaptMotion(motion) ==
    [motion EXCEPT ![5] = RMul(RInt(2), motion[5]),
                   ![6] = RMul(RInt(2), motion[6])]

\* The head of the body of the for loop, up to the main loop.
StartLevel ==
    /\ pc = "for"
    /\ UNCHANGED front
    /\ level >= 0
    /\ LET adapted == [i \in Cols |-> AdaptMotion(motion_vec[i])] IN
       /\ motion_vec' = adapted
       /\ loop_state' = [nb_iter |-> 0,
                         imgs_registered |-> project_f32(imgs, adapted),
                         old_imgs_a |-> DMatrix_zeros(imgs_count),
                         errors |-> DMatrix_zeros(imgs_count),
                         lagrange_mult_rho |-> DMatrix_zeros(imgs_count),
                         motion_vec |-> adapted]
       /\ hist' = [hist EXCEPT !.levels_run = Append(@, level),
                               !.step_calls = 0,
                               !.last_gn = <<>>,
                               !.residuals = <<>>,
                               !.last_stop = "none"]
    /\ continuation' = "Forward"
    /\ pc' = "while"
    /\ UNCHANGED <<config, imgs, level, result, caller, output>>

\* The results forwards_compositional_step can give for the columns of this
\* state: one outcome per image, the same for two images whose content,
\* registered column and residual are the same.
GNChoices(registered, residuals) ==
    {gn \in [Cols -> UNION {GNOutcomes(c) : c \in Images}] :
        /\ \A i \in Cols : gn[i] \in GNOutcomes(imgs[i])
        /\ \A i, j \in Cols :
              (imgs[i] = imgs[j] /\ registered[i] = registered[j]
                 /\ residuals[i] = residuals[j]) => gn[i] = gn[j]}

\* The matrices svd.recompose() can give after the shrinkage of the singular
\* values: the zero matrix for the zero matrix, and equal columns for equal
\* columns.
AChoices(imgs_a_temp) ==
    {a \in [Cols -> AValues] :
        /\ (\A i \in Cols : imgs_a_temp[i] = RZero) => (\A i \in Cols : a[i] = RZero)
        /\ \A i, j \in Cols : imgs_a_temp[i] = imgs_a_temp[j] => a[i] = a[j]}

\* (variant: the errors are updated whatever the configuration)
ErrorsUpdate_always(do_image_correction, alpha, errors_temp, errors) ==
    [i \in DOMAIN errors_temp |-> shrink(alpha, errors_temp[i])]

\* e-update: the shrinkage of errors_temp with image correction, else the
\* errors stay what they were.
ErrorsUpdate(do_image_correction, alpha, errors_temp, errors) ==
    IF do_image_correction
    THEN [i \in DOMAIN errors_temp |-> shrink(alpha, errors_temp[i])]
    ELSE errors

\* (variant: a failed factorization is skipped)
CholeskyPanics_never(gn) == FALSE

\* hessian.cholesky().expect("Error hessian choleski"): the step panics as
\* soon as the factorization of one image is None.
CholeskyPanics(gn) == \E i \in DOMAIN gn : ~gn[i].chol

\* (variant: the step is composed on the left)
ComposeSteps_left(motions, gn) ==
    [i \in DOMAIN motions |->
        projection_params(MatMul(projection_mat(gn[i].step), projection_mat(motions[i])))]

\* (variant: the reference image is not updated)
ComposeSteps_skip_ref(motions, gn) ==
    [i \in DOMAIN motions |->
        IF i = 1 THEN motions[i]
        ELSE projection_params(MatMul(projection_mat(motions[i]),
                                      projection_mat(gn[i].step)))]

\* The motions after the theta-update: each composed with its step.
ComposeSteps(motions, gn) ==
    [i \in DOMAIN motions |->
        projection_params(MatMul(projection_mat(motions[i]), projection_mat(gn[i].step)))]

\* (variant: the motions are left as composed)
Normalize_none(motions, inverse_motion_ref) == motions

\* "Transform all motion parameters such that image 0 is the reference."
Normalize(motions, inverse_motion_ref) ==
    [i \in DOMAIN motions |->
        projection_params(MatMul(inverse_motion_ref, projection_mat(motions[i])))]

\* (variant: the cap counts the step that is running)
StopCondition_counting(nb_iter, max_iterations, below) ==
    nb_iter + 1 >= max_iterations \/ below

\* The test that ends the main loop.
StopCondition(nb_iter, max_iterations, below) ==
    nb_iter >= max_iterations \/ below

\* One call of step by the main loop, and the loop's assignment of its result.
Step ==
    /\ pc = "while"
    /\ UNCHANGED front
    /\ continuation = "Forward"
    /\ LET nb_iter == loop_state.nb_iter
           old_imgs_a == loop_state.old_imgs_a
           lambda == <<config.lambda, 1>>          \* lambda / sqrt(nrows), nrows = 1
           rho == <<config.rho, 1>>
           imgs_a_temp == MAdd(MAdd(loop_state.imgs_registered, loop_state.errors),
                               loop_state.lagrange_mult_rho)
       IN
       \E imgs_a \in AChoices(imgs_a_temp) :
         LET errors_temp == MSub(MSub(imgs_a, loop_state.imgs_registered),
                                 loop_state.lagrange_mult_rho)
             errors == ErrorsUpdate(config.do_image_correction, RDiv(lambda, rho),
                                    errors_temp, loop_state.errors)
             residuals == MSub(errors_temp, errors)
         IN
         \E gn \in GNChoices(loop_state.imgs_registered, residuals) :
           IF CholeskyPanics(gn)
           THEN /\ result' = Panic("Error hessian choleski")
                /\ pc' = "done"
                /\ hist' = [hist EXCEPT !.step_calls = @ + 1, !.last_gn = gn,
                                        !.residuals = residuals,
                                        !.last_stop = "cholesky"]
                /\ UNCHANGED <<config, imgs, level, motion_vec, loop_state,
                               continuation, caller, output>>
           ELSE
             LET composed == ComposeSteps(loop_state.motion_vec, gn)
                 inverse_motion_ref == try_inverse(projection_mat(composed[1]))
             IN
             IF inverse_motion_ref = NoInverse
             THEN \* .expect("Error while inversing motion of reference image")
                  /\ result' = Panic("Error while inversing motion of reference image")
                  /\ pc' = "done"
                  /\ hist' = [hist EXCEPT !.step_calls = @ + 1, !.last_gn = gn,
                                          !.residuals = residuals,
                                          !.last_stop = "singular"]
                  /\ UNCHANGED <<config, imgs, level, motion_vec, loop_state,
                                 continuation, caller, output>>
             ELSE
               LET new_motion == Normalize(composed, inverse_motion_ref)
                   registered == project_f32(imgs, new_motion)
                   lagrange == MAdd(loop_state.lagrange_mult_rho,
                                    MAdd(MSub(registered, imgs_a), errors))
                   below == ResidualBelow(imgs_a, old_imgs_a, config.threshold)
                   stop == StopCondition(nb_iter, config.max_iterations, below)
               IN
               /\ loop_state' = [nb_iter |-> nb_iter + 1,
                                 imgs_registered |-> registered,
                                 old_imgs_a |-> imgs_a,
                                 errors |-> errors,
                                 lagrange_mult_rho |-> lagrange,
                                 motion_vec |-> new_motion]
               /\ continuation' = IF stop THEN "Stop" ELSE "Forward"
               /\ hist' = [hist EXCEPT !.step_calls = @ + 1, !.last_gn = gn,
                              !.residuals = residuals,
                              !.last_stop = IF below THEN "converged"
                                            ELSE IF stop THEN "cap" ELSE "forward",
                              !.cap_hit = @ \/ (stop /\ ~below)]
               /\ UNCHANGED <<config, imgs, pc, level, motion_vec, result,
                              caller, output>>

\* (variant: a level that stopped at the cap ends the run with an error)
EndLevel_cap_error ==
    /\ pc = "while"
    /\ UNCHANGED front
    /\ continuation = "Stop"
    /\ IF hist.last_stop = "cap"
       THEN /\ result' = Panic("not converged")
            /\ pc' = "done"
            /\ UNCHANGED <<motion_vec, level, hist>>
       ELSE /\ motion_vec' = loop_state.motion_vec
            /\ level' = level - 1
            /\ pc' = "for"
            /\ hist' = [hist EXCEPT !.level_final = loop_state.motion_vec]
            /\ UNCHANGED result
    /\ UNCHANGED <<config, imgs, loop_state, continuation, caller, output>>

\* After the main loop: "Update the motion vec before next level".
EndLevel ==
    /\ pc = "while"
    /\ UNCHANGED front
    /\ continuation = "Stop"
    /\ motion_vec' = loop_state.motion_vec
    /\ level' = level - 1
    /\ pc' = "for"
    /\ hist' = [hist EXCEPT !.level_final = loop_state.motion_vec]
    /\ UNCHANGED <<config, imgs, loop_state, continuation, result, caller, output>>

\* After the for loop: the images of level 0 are taken out of multires_imgs
\* (unwrap panics when there is none) and the motion vector is returned.
Return ==
    /\ pc = "for"
    /\ UNCHANGED front
    /\ level < 0
    /\ result' = IF LevelsCount = 0
                 THEN Panic("unwrap on None")
                 ELSE Ok(motion_vec)
    /\ pc' = "done"
    /\ UNCHANGED <<config, imgs, level, motion_vec, loop_state, continuation,
                   caller, output, hist>>

(* ------------------------------ the callers --------------------------- *)
\* inverse_crop_motion / recover_original_motion: the motion of the cropped
\* frame in the frame of the full image, translation * motion * translation_inv.
\* (variant: the inverse translation is left out)
recover_original_motion_left(frame, motion_vec_crop) ==
    LET translation == projection_mat(Vec6(0, 0, 0, 0, frame.x1, frame.y1))
    IN  [i \in DOMAIN motion_vec_crop |->
            projection_params(MatMul(translation, projection_mat(motion_vec_crop[i])))]

\* (variant: the translation and its inverse change places)
recover_original_motion_swapped(frame, motion_vec_crop) ==
    LET translation == projection_mat(Vec6(0, 0, 0, 0, frame.x1, frame.y1))
        translation_inv == try_inverse(translation)
    IN  [i \in DOMAIN motion_vec_crop |->
            projection_params(
                MatMul(MatMul(translation_inv, projection_mat(motion_vec_crop[i])),
                       translation))]

recover_original_motion(frame, motion_vec_crop) ==
    LET translation == projection_mat(Vec6(0, 0, 0, 0, frame.x1, frame.y1))
        translation_inv == try_inverse(translation)
    IN  [i \in DOMAIN motion_vec_crop |->
            projection_params(
                MatMul(MatMul(translation, projection_mat(motion_vec_crop[i])),
                       translation_inv))]

original_motion(frame, motion_vec_crop) ==
    IF frame.kind = "NoCrop" THEN motion_vec_crop
    ELSE recover_original_motion(frame, motion_vec_crop)

\* (variant: the values are laid out parameter by parameter)
FlattenMotion_by_param(mv) ==
    [k \in 1..(6 * Len(mv)) |-> mv[((k - 1) % Len(mv)) + 1][((k - 1) \div Len(mv)) + 1]]

\* motion_vec.iter().flatten().cloned().collect()
FlattenMotion(mv) ==
    [k \in 1..(6 * Len(mv)) |-> mv[((k - 1) \div 6) + 1][((k - 1) % 6) + 1]]

\* The lines println! writes, one per vector: its six values in order.
PrintLines(mv) == [i \in DOMAIN mv |-> [values |-> mv[i], separator |-> ", "]]

\* An empty dataset never reaches the registration: load_dataset of the
\* command line bails out, run of the wasm object answers an empty vector.
EmptyDataset ==
    /\ pc = "start"
    /\ UNCHANGED front
    /\ caller # "lib"
    /\ imgs_count = 0
    /\ output' = IF caller = "cli"
                 THEN [kind |-> "error", msg |-> "I didn't find any image"]
                 ELSE [kind |-> "returned", crop |-> NoCrop, values |-> <<>>]
    /\ pc' = "exit"
    /\ UNCHANGED <<config, imgs, level, motion_vec, loop_state, continuation,
                   result, caller, hist>>

\* run of the command line: the motion in the original frame, on stdout.
CliOutput ==
    /\ pc = "done"
    /\ UNCHANGED front
    /\ caller = "cli"
    /\ result.kind = "Ok"
    /\ \E frame \in Crops :
         output' = [kind |-> "stdout", crop |-> frame,
                    lines |-> PrintLines(original_motion(frame, result.motion))]
    /\ pc' = "exit"
    /\ UNCHANGED <<config, imgs, level, motion_vec, loop_state, continuation,
                   result, caller, hist>>

\* run of the wasm object: the flattened motion in the original frame.
WasmOutput ==
    /\ pc = "done"
    /\ UNCHANGED front
    /\ caller = "wasm"
    /\ result.kind = "Ok"
    /\ \E frame \in Crops :
         output' = [kind |-> "returned", crop |-> frame,
                    values |-> FlattenMotion(original_motion(frame, result.motion))]
    /\ pc' = "exit"
    /\ UNCHANGED <<config, imgs, level, motion_vec, loop_state, continuation,
                   result, caller, hist>>

Next ==
    \/ Prepare \/ StartLevel \/ Step \/ EndLevel \/ Return
    \/ EmptyDataset \/ CliOutput \/ WasmOutput

Spec == Init /\ [][Next]_vars

(* -------------------- calls of the library functions ------------------ *)
\* The registration when no run is going on.
IdleConfig == [do_image_correction |-> FALSE, lambda |-> 1, rho |-> 1,
               max_iterations |-> 0, threshold |-> RZero, levels |-> 1]

NoRun ==
    /\ config = IdleConfig
    /\ imgs = <<>>
    /\ pc = "exit"
    /\ level = 0
    /\ motion_vec = <<>>
    /\ loop_state = NoState
    /\ continuation = "Stop"
    /\ result = NoResult
    /\ caller = "lib"
    /\ output = NoOutput
    /\ hist = NoHist

run_vars == <<config, imgs, pc, level, motion_vec, loop_state, continuation,
              result, caller, output, hist>>

RNeg(a) == <<-a[1], a[2]>>

\* A DMatrix of the given shape; every pixel has a value of its own.
Matrix(height, width) ==
    [height |-> height, width |-> width,
     px |-> [y \in 0..(height - 1) |-> [x \in 0..(width - 1) |-> 10 * y + x]]]

\* im.slice((y1, x1), (nrows, ncols)).into_owned()
slice(im, y1, x1, nrows, ncols) ==
    [height |-> nrows, width |-> ncols,
     px |-> [r \in 0..(nrows - 1) |-> [c \in 0..(ncols - 1) |-> im.px[y1 + r][x1 + c]]]]

Cropped(m) == [kind |-> "Ok", image |-> m]

\* crop, for one image of the list: the assertions, then the slice.
crop(frame, im) ==
    IF frame.kind = "NoCrop" THEN Cropped(im)
    ELSE IF ~(frame.x1 < im.width) THEN Panic("Error: x1 >= image width")
    ELSE IF ~(frame.x2 < im.width) THEN Panic("Error: x2 >= image width")
    ELSE IF ~(frame.y1 < im.height) THEN Panic("Error: y1 >= image height")
    ELSE IF ~(frame.y2 < im.height) THEN Panic("Error: y2 >= image height")
    ELSE IF ~(frame.x1 <= frame.x2) THEN Panic("Error: x2 must be greater than x1")
    ELSE IF ~(frame.y1 <= frame.y2) THEN Panic("Error: y2 must be greater than y1")
    ELSE Cropped(slice(im, frame.y1, frame.x1,
                       frame.y2 - frame.y1, frame.x2 - frame.x1))

MaxCoord == 3      \* largest coordinate of a crop frame

\* Inputs of the calls.
ShrinkAlphas == {RInt(-1), RZero, <<1, 2>>, ROne, RInt(2)}
ShrinkValues == {RInt(-3), RInt(-2), RInt(-1), <<-1, 2>>, RZero,
                 <<1, 2>>, ROne, RInt(2), RInt(3)}
CropImages == {Matrix(2, 3), Matrix(3, 2)}
CropFrames == {NoCrop} \cup
    {Area(x1, y1, x2, y2) : x1 \in 0..MaxCoord, y1 \in 0..MaxCoord,
                            x2 \in 0..MaxCoord, y2 \in 0..MaxCoord}
MotionFrames == {NoCrop, Area(0, 0, 2, 2), Area(1, 2, 3, 4), Area(2, 0, 3, 1)}
Motions == {<<p0, p1, p2, p3, p4, p5>> :
               p0 \in {RZero, <<1, 2>>}, p1 \in {RZero, ROne}, p2 \in {RZero, RInt(-1)},
               p3 \in {RZero, ROne}, p4 \in {RZero, RInt(3)}, p5 \in {RZero, <<-1, 2>>}}

\* Values of config.image_max and the motions of the projections.
ImageMaxes == {RInt(255), ROne}
ProjectionMotions == {Vector6_zeros, Vec6(0, 0, 0, 0, 1, 2), Vec6(1, 0, 0, 1, 0, 0)}

\* Shapes (height, width) of a level: too small for a border, and with a
\* border of 1 and of 2 pixels.
Shapes == {<<4, 6>>, <<25, 26>>, <<50, 50>>}

Min(a, b) == IF a <= b THEN a ELSE b

\* let border = (0.04 * height.min(width) as f32) as usize;
border(height, width) == (4 * Min(height, width)) \div 100

\* "Only use points within a given margin": the test under which a pixel is
\* added to the Hessian and to descent_params.
within_margin(height, width, x, y) ==
    LET b == border(height, width) IN
    x > b /\ x + b < width /\ y > b /\ y + b < height

\* A value returned by a function that can also panic.
Returned(v) == [kind |-> "Ok", value |-> v]

\* Lists of lists given to transpose: one list per image, one entry per level.
Entries == {"p", "q"}
InnerLists == UNION {[1..n -> Entries] : n \in 0..MaxLevels}
OuterLists == UNION {[1..k -> InnerLists] : k \in 0..MaxK}

\* (variant: inner lists of different sizes give an empty list)
transpose_unchecked(v) ==
    IF v = <<>> THEN Returned(<<>>)
    ELSE LET transposed_len == Len(v[1]) IN
         IF \E i \in DOMAIN v : Len(v[i]) # transposed_len THEN Returned(<<>>)
         ELSE IF transposed_len = 0 THEN Returned(<<>>)
         ELSE Returned([j \in 1..transposed_len |-> [i \in DOMAIN v |-> v[i][j]]])

\* "Transpose a Vec of Vec. Will crash if the inner vecs are not all the same
\* size."
transpose(v) ==
    IF v = <<>> THEN Returned(<<>>)
    ELSE LET transposed_len == Len(v[1]) IN
         IF \E i \in DOMAIN v : Len(v[i]) # transposed_len
         THEN Panic("assertion failed")
         ELSE IF transposed_len = 0 THEN Returned(<<>>)
         ELSE Returned([j \in 1..transposed_len |-> [i \in DOMAIN v |-> v[i][j]]])

\* Channels given to rgb_to_gray: matrices of one or two pixels, as a shape
\* (rows, cols) and the values in storage order.
ChannelValues == {0, 128, 255}
ChannelShapes == {<<1, 1>>, <<2, 1>>, <<1, 2>>}
Channels(shape) == [shape : {shape}, data : [1..(shape[1] * shape[2]) -> ChannelValues]]

\* f32 as u8: the integer part, saturated to 0..255.
as_u8(q) ==
    IF RLt(q, RZero) THEN 0
    ELSE IF RLt(RInt(255), q) THEN 255
    ELSE q[1] \div q[2]

\* f32::max
RMax(a, b) == IF RLt(a, b) THEN b ELSE a

\* (0.2989 * r as f32 + 0.5870 * g as f32 + 0.1140 * b as f32).max(255.0) as u8
gray_pixel(r, g, b) ==
    as_u8(RMax(Rat(2989 * r + 5870 * g + 1140 * b, 10000), RInt(255)))

\* rgb_to_gray: a matrix of the shape of red, filled from the three channels
\* pixel by pixel.
rgb_to_gray(red, green, blue) ==
    [shape |-> red.shape,
     data |-> [i \in DOMAIN red.data |->
                  gray_pixel(red.data[i], green.data[i], blue.data[i])]]

Calls ==
    [op : {"shrink"}, alpha : ShrinkAlphas, x : ShrinkValues, done : {FALSE}]
    \cup [op : {"crop"}, frame : CropFrames, im : CropImages, done : {FALSE}]
    \cup [op : {"original_motion"}, frame : MotionFrames, motion : Motions,
          done : {FALSE}]
    \cup [op : {"project_f32"}, image_max : ImageMaxes, img : Images,
          motion : ProjectionMotions, done : {FALSE}]
    \cup UNION {[op : {"forwards_compositional_step"}, shape : {s},
             x : 0..(s[2] - 1), y : 0..(s[1] - 1), done : {FALSE}] : s \in Shapes}
    \cup [op : {"transpose"}, v : OuterLists, done : {FALSE}]
    \cup UNION {[op : {"rgb_to_gray"}, red : Channels(s), green : Channels(s),
             blue : Channels(s), done : {FALSE}] : s \in ChannelShapes}

CallInit == NoRun /\ cli = NoCli /\ wasm = NoWasm /\ call \in Calls

ShrinkCall ==
    /\ call.op = "shrink" /\ ~call.done
    /\ call' = [op |-> "shrink", alpha |-> call.alpha, x |-> call.x, done |-> TRUE,
                out |-> shrink(call.alpha, call.x)]
    /\ UNCHANGED <<run_vars, cli, wasm>>

CropCall ==
    /\ call.op = "crop" /\ ~call.done
    /\ call' = [op |-> "crop", frame |-> call.frame, im |-> call.im, done |-> TRUE,
                out |-> crop(call.frame, call.im)]
    /\ UNCHANGED <<run_vars, cli, wasm>>

OriginalMotionCall ==
    /\ call.op = "original_motion" /\ ~call.done
    /\ call' = [op |-> "original_motion", frame |-> call.frame,
                motion |-> call.motion, done |-> TRUE,
                out |-> original_motion(call.frame, <<call.motion>>)]
    /\ UNCHANGED <<run_vars, cli, wasm>>

\* project_f32 for one image, under a Config with the given image_max.
ProjectCall ==
    /\ call.op = "project_f32" /\ ~call.done
    /\ call' = [op |-> "project_f32", image_max |-> call.image_max, img |-> call.img,
                motion |-> call.motion, done |-> TRUE,
                out |-> project_f32(<<call.img>>, <<call.motion>>)]
    /\ UNCHANGED <<run_vars, cli, wasm>>

\* The body of the loop of forwards_compositional_step for one pixel: used
\* tells whether the pixel was added to the Hessian.
MarginCall ==
    /\ call.op = "forwards_compositional_step" /\ ~call.done
    /\ call' = [call EXCEPT !.done = TRUE] @@
               [used |-> within_margin(call.shape[1], call.shape[2], call.x, call.y)]
    /\ UNCHANGED <<run_vars, cli, wasm>>

\* transpose, and transpose of its result when it returned one.
TransposeCall ==
    /\ call.op = "transpose" /\ ~call.done
    /\ LET out == transpose(call.v) IN
       call' = [op |-> "transpose", v |-> call.v, done |-> TRUE, out |-> out,
                twice |-> IF out.kind = "Ok" THEN transpose(out.value) ELSE out]
    /\ UNCHANGED <<run_vars, cli, wasm>>

RgbToGrayCall ==
    /\ call.op = "rgb_to_gray" /\ ~call.done
    /\ call' = [op |-> "rgb_to_gray", red |-> call.red, green |-> call.green,
                blue |-> call.blue, done |-> TRUE,
                out |-> rgb_to_gray(call.red, call.green, call.blue)]
    /\ UNCHANGED <<run_vars, cli, wasm>>

CallNext == ShrinkCall \/ CropCall \/ OriginalMotionCall \/ ProjectCall \/ MarginCall \/ TransposeCall \/ RgbToGrayCall

CallSpec == CallInit /\ [][CallNext]_vars

(* ----------------------------- the wasm object ------------------------ *)
\* What reader.decode() gives for an image file: an error, or a DynamicImage
\* of one of the variants.
Variants == {"ImageLuma8", "ImageLumaA8", "ImageRgb8", "ImageRgba8", "ImageBgr8",
             "ImageBgra8", "ImageLuma16", "ImageLumaA16", "ImageRgb16", "ImageRgba16"}
Undecodable == [decodes |-> FALSE, variant |-> "none"]
Decoded(v) == [decodes |-> TRUE, variant |-> v]
ImageFiles == {Undecodable} \cup {Decoded(v) : v \in Variants}
ImageIds == {"id1", "id2"}

\* The Dataset that holds the matrices of a variant.
DatasetOf(variant) ==
    CASE variant = "ImageLuma8" -> "GrayImages"
      [] variant = "ImageLuma16" -> "GrayImagesU16"
      [] variant = "ImageRgb8" -> "RgbImages"
      [] variant = "ImageRgb16" -> "RgbImagesU16"
      [] OTHER -> "none"

\* (variant: an image of a supported type is stored whatever the dataset holds)
LoadMatch_any(variant, dataset_kind) ==
    CASE DatasetOf(variant) # "none" /\ dataset_kind = "Empty" -> "first"
      [] DatasetOf(variant) # "none" /\ dataset_kind # "Empty" -> "push"
      [] variant \in {"ImageBgr8", "ImageBgra8"} -> "BGR order not supported"
      [] variant \in {"ImageLumaA8", "ImageLumaA16", "ImageRgba8", "ImageRgba16"} ->
            "Alpha channel not supported"
      [] OTHER -> "Images are not all of the same type"

\* The match of load on (&dyn_img, &mut self.dataset): the first image of a
\* dataset, a subsequent one, or the error of the arm.
LoadMatch(variant, dataset_kind) ==
    CASE DatasetOf(variant) # "none" /\ dataset_kind = "Empty" -> "first"
      [] DatasetOf(variant) # "none" /\ dataset_kind = DatasetOf(variant) -> "push"
      [] variant \in {"ImageBgr8", "ImageBgra8"} -> "BGR order not supported"
      [] variant \in {"ImageLumaA8", "ImageLumaA16", "ImageRgba8", "ImageRgba16"} ->
            "Alpha channel not supported"
      [] OTHER -> "Images are not all of the same type"

\* Args of the wasm run and of the command line: Option<f32> and Option<Crop>.
None == [some |-> FALSE, value |-> RZero]
Some(v) == [some |-> TRUE, value |-> v]
\* (0.0..=1.0).contains(&value), for a target that is given.
InRange(equalize) ==
    equalize.some => (RLe(RZero, equalize.value) /\ RLe(equalize.value, ROne))

Equalizes == {None, Some(<<1, 2>>), Some(RInt(2)), Some(RInt(-1))}

\* What crop of lowrr::img gives for a frame: the cropped image or an error.
CropResults == {"Ok", "Err"}
\* What gray_affine gives: the motions, an error, or a panic.
RegistrationResults == {"Ok", "Err", "panic"}
\* The motion gray_affine gives for the images after the first one.
RegisteredMotions == {Vector6_zeros, Vec6(1, 1, 0, 0, 1, 2)}

Lowrr_init ==
    [pc |-> "ready", image_ids |-> <<>>,
     dataset |-> [kind |-> "Empty", imgs |-> <<>>],
     crop_registered |-> <<>>,
     last |-> [call |-> "init"]]

WasmInit == NoRun /\ call = NoCall /\ cli = NoCli /\ wasm = Lowrr_init

\* (variant: the id is recorded whatever the arm)
image_ids_after_any(arm, image_ids, id) == Append(image_ids, id)

\* self.image_ids after the match of load: vec![id] in the arm of the first
\* image, push(id) in the arm of a subsequent one, untouched by an error.
image_ids_after(arm, image_ids, id) ==
    CASE arm = "first" -> <<id>>
      [] arm = "push" -> Append(image_ids, id)
      [] OTHER -> image_ids

\* Lowrr::load
Load ==
    /\ wasm.pc = "ready"
    /\ Len(wasm.image_ids) < MaxK
    /\ \E id \in ImageIds, img_file \in ImageFiles :
         LET arm == IF img_file.decodes
                    THEN LoadMatch(img_file.variant, wasm.dataset.kind)
                    ELSE "decoding error"
         IN  wasm' =
               CASE arm = "first" ->
                      [wasm EXCEPT
                         !.dataset = [kind |-> DatasetOf(img_file.variant),
                                      imgs |-> <<img_file.variant>>],
                         !.image_ids = image_ids_after(arm, @, id),
                         !.last = [call |-> "load", id |-> id, file |-> img_file,
                                   kind |-> "Ok"]]
                 [] arm = "push" ->
                      [wasm EXCEPT
                         !.dataset.imgs = Append(@, img_file.variant),
                         !.image_ids = image_ids_after(arm, @, id),
                         !.last = [call |-> "load", id |-> id, file |-> img_file,
                                   kind |-> "Ok"]]
                 [] OTHER ->
                      [wasm EXCEPT
                         !.image_ids = image_ids_after(arm, @, id),
                         !.last = [call |-> "load", id |-> id, file |-> img_file,
                                   kind |-> "Err", msg |-> arm]]
    /\ UNCHANGED <<run_vars, cli, call>>

\* (variant: the images of the last run are kept)
clear_kept(crop_registered) == crop_registered

\* self.crop_registered.clear(), the first statement of run.
clear(crop_registered) == <<>>

\* registration::reproject (reproject_u8, for every pixel type) on the
\* cropped images and their motions: one
\* image per pair, in order; source is the position of the loaded image it
\* comes from, crop the frame it was cropped with.
reproject(frame, motions) ==
    [k \in DOMAIN motions |->
        [source |-> k, crop |-> frame, motion |-> motions[k]]]

\* Lowrr::run with crop_and_register: crop, equalize_mean, gray_affine, then
\* the motion in the original frame, flattened.
Run ==
    /\ wasm.pc = "ready"
    /\ \E equalize \in Equalizes, frame \in Crops, cropped \in CropResults,
          registration \in RegistrationResults, m \in RegisteredMotions :
         LET count == Len(wasm.dataset.imgs)
             crop_ok == frame.kind = "NoCrop" \/ cropped = "Ok"
             motion_vec_crop == [i \in 1..count |-> IF i = 1 THEN Vector6_zeros ELSE m]
             done == [call |-> "run", equalize |-> equalize, crop |-> frame,
                      cropped |-> FALSE, equalize_mean |-> None,
                      registered |-> FALSE, kind |-> "Ok", values |-> <<>>]
         IN  wasm' =
               CASE wasm.dataset.kind = "Empty" ->
                      [wasm EXCEPT !.crop_registered = clear(@), !.last = done]
                 [] wasm.dataset.kind # "Empty" /\ ~crop_ok ->
                      [wasm EXCEPT !.crop_registered = clear(@),
                         !.last = [done EXCEPT !.kind = "Err"]]
                 [] wasm.dataset.kind # "Empty" /\ crop_ok /\ registration = "Err" ->
                      [wasm EXCEPT !.crop_registered = clear(@),
                         !.last = [done EXCEPT !.cropped = frame.kind # "NoCrop",
                                               !.equalize_mean = equalize,
                                               !.registered = TRUE,
                                               !.kind = "Err"]]
                 [] wasm.dataset.kind # "Empty" /\ crop_ok /\ registration = "panic" ->
                      [wasm EXCEPT !.crop_registered = clear(@), !.pc = "panicked",
                         !.last = [done EXCEPT !.cropped = frame.kind # "NoCrop",
                                               !.equalize_mean = equalize,
                                               !.registered = TRUE,
                                               !.kind = "panic"]]
                 [] OTHER ->
                      [wasm EXCEPT !.crop_registered = reproject(frame, motion_vec_crop),
                         !.last = [done EXCEPT
                            !.cropped = frame.kind # "NoCrop",
                            !.equalize_mean = equalize,
                            !.registered = TRUE,
                            !.values = FlattenMotion(original_motion(frame,
                                                                     motion_vec_crop))]]
    /\ UNCHANGED <<run_vars, cli, call>>

WasmNext == Load \/ Run

WasmSpec == WasmInit /\ [][WasmNext]_vars

(* ------------------------ the command line program ------------------- *)
\* An image file: what image::open gives for it, with the shape
\* (height, width) of the image.
Unreadable == [decodes |-> FALSE, variant |-> "none", shape |-> <<0, 0>>]
Picture(variant, shape) == [decodes |-> TRUE, variant |-> variant, shape |-> shape]
Contents == {Unreadable, Picture("ImageLuma8", <<8, 8>>),
             Picture("ImageLuma8", <<4, 4>>), Picture("ImageRgba8", <<8, 8>>)}
Extensions == {"png", "nef", "txt"}
Paths == [ext : Extensions, content : Contents]
PathLists == UNION {[1..k -> Paths] : k \in 0..MaxK}

\* The match of load_dataset on the extension of a path.
img_type(ext) ==
    CASE ext = "nef" -> "raw"
      [] ext \in {"png", "jpg", "jpeg", "tif", "tiff"} -> "image"
      [] OTHER -> "Unrecognized extension"

\* What into_dmatrix gives for an image opened by load_all: the matrix for
\* an image of the variant of the first one; for another variant the
\* conversion of lowrr::interop gives a matrix or panics.
IntoDMatrixResults(variant, first_variant) ==
    IF variant = first_variant THEN {"Ok"} ELSE {"Ok", "panic"}

Event(ev, i) == [ev |-> ev, i |-> i]

CliArgs ==
    [pc : {"get_args"}, parses : BOOLEAN, equalize : Equalizes, crop : Crops,
     images_paths : PathLists, next : {1}, images_types : {<<>>}, imgs : {<<>>},
     stack : {<<>>}, outcome : {"none"}, trace : {<<>>}, lines : {<<>>}]

CliInit == NoRun /\ call = NoCall /\ wasm = NoWasm /\ cli \in CliArgs

\* Where an error or a panic ends the program.
Bail(ev) == [cli EXCEPT !.pc = "exit", !.outcome = "error",
                        !.trace = Append(@, Event(ev, cli.next))]
Abort(ev) == [cli EXCEPT !.pc = "exit", !.outcome = "panic",
                         !.trace = Append(@, Event(ev, cli.next))]

\* get_args: the values are parsed, the equalize target is checked.
GetArgs ==
    /\ cli.pc = "get_args"
    /\ cli' = IF ~cli.parses THEN Bail("args failed")
              ELSE IF ~InRange(cli.equalize) THEN Bail("args failed")
              ELSE [cli EXCEPT !.pc = "extensions",
                               !.trace = Append(@, Event("args", 0))]
    /\ UNCHANGED <<run_vars, wasm, call>>

\* (variant: the loop over the paths is left after the first path)
LoopOver_first(next, paths) == next > 1 \/ next > Len(paths)

\* The for loop of load_dataset has gone over every path.
LoopOver(next, paths) == next > Len(paths)

\* load_dataset, one turn of the loop over the paths.
CheckExtension ==
    /\ cli.pc = "extensions"
    /\ ~LoopOver(cli.next, cli.images_paths)
    /\ LET t == img_type(cli.images_paths[cli.next].ext) IN
       cli' = IF t = "Unrecognized extension" THEN Bail("extension failed")
              ELSE [cli EXCEPT !.images_types = Append(@, t),
                               !.next = @ + 1,
                               !.trace = Append(@, Event("extension", cli.next))]
    /\ UNCHANGED <<run_vars, wasm, call>>

\* load_dataset after the loop: the test on images_types.
SelectLoader ==
    /\ cli.pc = "extensions"
    /\ LoopOver(cli.next, cli.images_paths)
    /\ LET types == {cli.images_types[i] : i \in DOMAIN cli.images_types} IN
       cli' = IF cli.images_types = <<>> THEN Bail("no image")
              ELSE IF types = {"raw"} THEN Abort("unimplemented")
              ELSE IF types = {"image"} THEN [cli EXCEPT !.pc = "open", !.next = 1]
              ELSE Bail("mix of image types")
    /\ UNCHANGED <<run_vars, wasm, call>>

\* load_dataset opens the first image and matches its type.
OpenFirst ==
    /\ cli.pc = "open"
    /\ cli.next = 1
    /\ LET file == cli.images_paths[1].content IN
       cli' = IF ~file.decodes THEN Bail("open failed")
              ELSE IF DatasetOf(file.variant) = "none"
                   THEN [Bail("unsupported") EXCEPT
                            !.trace = Append(cli.trace, Event("open", 1))]
              ELSE [cli EXCEPT !.imgs = <<file>>, !.next = 2,
                               !.trace = Append(@, Event("open", 1))]
    /\ UNCHANGED <<run_vars, wasm, call>>

\* load_all, one turn of the loop over the other paths.
OpenOther ==
    /\ cli.pc = "open"
    /\ cli.next > 1
    /\ cli.next <= Len(cli.images_paths)
    /\ LET file == cli.images_paths[cli.next].content IN
       IF ~file.decodes THEN cli' = Bail("open failed")
       ELSE \E matrix \in IntoDMatrixResults(file.variant, cli.imgs[1].variant) :
               cli' = IF matrix = "panic"
                      THEN [Abort("into_dmatrix") EXCEPT
                               !.trace = Append(cli.trace, Event("open", cli.next))]
                      ELSE [cli EXCEPT !.imgs = Append(@, file), !.next = @ + 1,
                                       !.trace = Append(@, Event("open", cli.next))]
    /\ UNCHANGED <<run_vars, wasm, call>>

\* The shape of a cropped image.
CroppedShape(frame, shape) ==
    IF frame.kind = "NoCrop" THEN shape
    ELSE <<frame.y2 - frame.y1, frame.x2 - frame.x1>>

\* crop_and_register: crop, equalize_mean, gray_affine.
CropAndRegister ==
    /\ cli.pc = "open"
    /\ cli.next > 1
    /\ cli.next > Len(cli.images_paths)
    /\ \E cropped \in CropResults, registration \in RegistrationResults :
         LET cropped_imgs == [i \in DOMAIN cli.imgs |->
                                 CroppedShape(cli.crop, cli.imgs[i].shape)]
             crop_trace == IF cli.crop.kind = "NoCrop" THEN cli.trace
                           ELSE Append(cli.trace, Event("crop", 0))
             eq_trace == IF cli.equalize.some
                         THEN Append(crop_trace, Event("equalize_mean", 0))
                         ELSE crop_trace
             called == [cli EXCEPT !.stack = cropped_imgs,
                                   !.trace = Append(eq_trace, Event("gray_affine", 0))]
         IN  cli' = IF cli.crop.kind # "NoCrop" /\ cropped = "Err"
                    THEN Bail("crop failed")
                    ELSE CASE registration = "Ok" -> [called EXCEPT !.pc = "print"]
                           [] registration = "Err" ->
                                [called EXCEPT !.pc = "exit", !.outcome = "error"]
                           [] registration = "panic" ->
                                [called EXCEPT !.pc = "exit", !.outcome = "panic"]
    /\ UNCHANGED <<run_vars, wasm, call>>

\* run: the motion in the original frame, one line per image.
PrintMotion ==
    /\ cli.pc = "print"
    /\ \E m \in RegisteredMotions :
         LET motion_vec_crop == [i \in DOMAIN cli.imgs |->
                                    IF i = 1 THEN Vector6_zeros ELSE m]
         IN  cli' = [cli EXCEPT
                        !.pc = "exit", !.outcome = "ok",
                        !.lines = PrintLines(original_motion(cli.crop, motion_vec_crop))]
    /\ UNCHANGED <<run_vars, wasm, call>>

CliNext ==
    \/ GetArgs \/ CheckExtension \/ SelectLoader \/ OpenFirst \/ OpenOther
    \/ CropAndRegister \/ PrintMotion

CliSpec == CliInit /\ [][CliNext]_vars

(* ---------------------- dense or sparse, level by level --------------- *)
\* The driver of gray_affine with the sparse selector: at every level, from
\* the last one to level 0, the pixels whose gradient exceeds the threshold
\* of the caller are selected and the solver of the level is chosen.
SparseRatios == {<<1, 4>>, <<1, 2>>, ROne}

\* Height = width of the images of a level: halved from one level to the next.
RECURSIVE LevelSide(_)
LevelSide(l) == IF l = 0 THEN 4 ELSE LevelSide(l - 1) \div 2

PixelsCount(l) == LevelSide(l) * LevelSide(l)

\* (variant: a fraction equal to the threshold also runs the sparse solver)
SolverMode_le(selected, pixels_count, sparse_ratio_threshold) ==
    IF RLe(Rat(selected, pixels_count), sparse_ratio_threshold)
    THEN "sparse" ELSE "dense"

\* mode = dense if |S| / (H * W) >= sparse_ratio_threshold else sparse
SolverMode(selected, pixels_count, sparse_ratio_threshold) ==
    IF RLt(Rat(selected, pixels_count), sparse_ratio_threshold)
    THEN "sparse" ELSE "dense"

ModeInit ==
    /\ NoRun /\ cli = NoCli /\ wasm = NoWasm
    /\ call \in [op : {"gray_affine"}, sparse_ratio_threshold : SparseRatios,
                 levels : 1..MaxLevels, level : {-1}, started : {FALSE},
                 modes : {<<>>}]

\* One turn of the loop over the levels.
SelectMode ==
    /\ call.op = "gray_affine"
    /\ LET l == IF call.started THEN call.level - 1 ELSE call.levels - 1 IN
       /\ l >= 0
       /\ \E selected \in 0..PixelsCount(l) :
            call' = [call EXCEPT
                       !.level = l, !.started = TRUE,
                       !.modes = Append(@,
                          [level |-> l, selected |-> selected,
                           pixels_count |-> PixelsCount(l),
                           mode |-> SolverMode(selected, PixelsCount(l),
                                               call.sparse_ratio_threshold)])]
    /\ UNCHANGED <<run_vars, cli, wasm>>

ModeNext == SelectMode

ModeSpec == ModeInit /\ [][ModeNext]_vars

(* ------------------------------ properties --------------------------- *)
TypeOK ==
    /\ pc \in {"start", "for", "while", "done", "exit"}
    /\ continuation \in {"Forward", "Stop"}
    /\ result.kind \in {"none", "Ok", "panic"}
    /\ output.kind \in {"none", "stdout", "returned", "error"}

StepReturned == loop_state.nb_iter > 0

\* C1: in every state returned by step, at every level, the motion of image
\* 0 is the zero vector (its matrix is the identity), and so is the first
\* motion gray_images returns.
C1_ReferenceNormalized ==
    /\ StepReturned =>
          /\ loop_state.motion_vec[1] = Vector6_zeros
          /\ projection_mat(loop_state.motion_vec[1]) = Identity3
    /\ result.kind = "Ok" => result.motion[1] = Vector6_zeros

\* A step returned after a non-zero Gauss-Newton step of image 0, and another
\* image has a non-zero motion.
C1_Witness ==
    /\ StepReturned
    /\ pc = "while"
    /\ imgs_count >= 2
    /\ hist.last_gn[1].step # Vector6_zeros
    /\ loop_state.motion_vec[2] # Vector6_zeros

\* C2: below the coarsest level, the solver of a level starts from the final
\* motion of the level above with p4 and p5 doubled and p0..p3 unchanged, for
\* every image; what gray_images returns is the final motion of level 0 as it is.
C2_Propagation ==
    /\ (pc = "while" /\ loop_state.nb_iter = 0 /\ level < config.levels - 1) =>
          \A i \in Cols :
             LET f == hist.level_final[i] IN
             loop_state.motion_vec[i] =
                <<f[1], f[2], f[3], f[4], RMul(RInt(2), f[5]), RMul(RInt(2), f[6])>>
    /\ result.kind = "Ok" => result.motion = hist.level_final

\* A level below the coarsest starts from a motion with linear terms and
\* translations that are not zero.
C2_Witness ==
    /\ pc = "while"
    /\ loop_state.nb_iter = 0
    /\ level < config.levels - 1
    /\ imgs_count >= 2
    /\ hist.level_final[2][1] # RZero
    /\ hist.level_final[2][5] # RZero
    /\ hist.level_final[2][6] # RZero

\* C3: with L = config.levels >= 1, the levels are run once each in the order
\* L-1, L-2, ..., 0; a level starts only when the loop of the level above has
\* returned Stop; the result is the motion left by level 0.
C3_LevelOrder ==
    /\ [](/\ Len(hist.levels_run) <= config.levels
          /\ \A k \in 1..Len(hist.levels_run) : hist.levels_run[k] = config.levels - k
          /\ result.kind = "Ok" =>
                /\ Len(hist.levels_run) = config.levels
                /\ hist.levels_run[config.levels] = 0
                /\ result.motion = loop_state.motion_vec)
    /\ [][hist'.levels_run # hist.levels_run =>
             /\ hist'.levels_run = Append(hist.levels_run, level)
             /\ (hist.levels_run # <<>> =>
                    continuation = "Stop" /\ hist.last_stop \in {"converged", "cap"})]_vars

\* A run over two levels or more has returned.
C3_Witness ==
    /\ result.kind = "Ok"
    /\ config.levels >= 2
    /\ Len(hist.levels_run) = config.levels

Ended == pc \in {"done", "exit"}

\* C4: at every level the number of calls of step stays within
\* config.max_iterations.
C4_IterationCap == hist.step_calls <= config.max_iterations

C6_OutputShape ==
    /\ result.kind = "Ok" =>
          /\ Len(result.motion) = imgs_count
          /\ \A i \in Cols :
                /\ Len(result.motion[i]) = 6
                /\ result.motion[i] = loop_state.motion_vec[i]
    /\ output.kind = "stdout" =>
          /\ Len(output.lines) = imgs_count
          /\ \A i \in Cols :
                output.lines[i].values = original_motion(output.crop, result.motion)[i]
    /\ (output.kind = "returned" /\ imgs_count >= 1) =>
          /\ Len(output.values) = 6 * imgs_count
          /\ \A i \in Cols : \A j \in 1..6 :
                output.values[6 * (i - 1) + j] =
                   original_motion(output.crop, result.motion)[i][j]

\* The wasm run returned the motions of two images or more, not all zero.
C6_Witness ==
    /\ output.kind = "returned"
    /\ imgs_count >= 2
    /\ result.motion[2] # Vector6_zeros
    /\ Len(output.values) = 6 * imgs_count

Identical == imgs_count >= 1 /\ \A i \in Cols : imgs[i] = imgs[1]

AllZero(mv) == \A i \in DOMAIN mv : mv[i] = Vector6_zeros

C8_NoCorrection ==
    /\ [](~config.do_image_correction =>
             \A i \in DOMAIN loop_state.errors : loop_state.errors[i] = RZero)
    /\ [][(~config.do_image_correction /\ loop_state'.nb_iter = loop_state.nb_iter + 1) =>
             /\ hist'.residuals =
                   MSub(MSub(loop_state'.old_imgs_a, loop_state.imgs_registered),
                        loop_state.lagrange_mult_rho)
             /\ loop_state'.lagrange_mult_rho =
                   MSub(MAdd(loop_state.lagrange_mult_rho, loop_state'.imgs_registered),
                        loop_state'.old_imgs_a)]_vars

\* Without image correction, a second step or later of a level returned with
\* a residual that the shrinkage would not have brought to zero.
C8_Witness ==
    /\ ~config.do_image_correction
    /\ pc = "while"
    /\ loop_state.nb_iter >= 2
    /\ \E i \in Cols :
          shrink(<<config.lambda, config.rho>>, hist.residuals[i]) # RZero

CholeskyFailed == \E i \in DOMAIN hist.last_gn : ~hist.last_gn[i].chol

C10_SingularIsErr == hist.last_stop = "singular" => result.kind = "Err"

\* C11: a run on an empty stack ends with an error value at every entry
\* point: the command line, the wasm run and the call of gray_images.
C11_EmptyIsError ==
    (imgs_count = 0 /\ Ended) => (output.kind = "error" \/ result.kind = "Err")

CropCalled == call.op = "crop" /\ call.done

\* C14: crop gives the (y2-y1) x (x2-x1) submatrix with top-left pixel
\* (x1, y1) for every frame with x1 < x2 <= W and y1 < y2 <= H, and fails
\* when the frame exits the image or is inverted.
C14_CropBounds ==
    (CropCalled /\ call.frame.kind = "Area") =>
       LET f == call.frame
           W == call.im.width
           H == call.im.height
       IN  /\ (f.x1 < f.x2 /\ f.x2 <= W /\ f.y1 < f.y2 /\ f.y2 <= H) =>
                 /\ call.out.kind = "Ok"
                 /\ call.out.image =
                       slice(call.im, f.y1, f.x1, f.y2 - f.y1, f.x2 - f.x1)
           /\ (f.x2 > W \/ f.y2 > H \/ f.x1 > f.x2 \/ f.y1 > f.y2) =>
                 call.out.kind # "Ok"

MotionCalled == call.op = "original_motion" /\ call.done

NonDegenerate(frame) ==
    frame.kind = "Area" /\ frame.x1 < frame.x2 /\ frame.y1 < frame.y2

\* The translation by the offset of a frame.
Offset(frame) == projection_mat(Vec6(0, 0, 0, 0, frame.x1, frame.y1))

\* The parameters of a * M * b, for the matrix M of the parameters theta.
Between(a, theta, b) ==
    projection_params(MatMul(MatMul(a, projection_mat(theta)), b))

C16_OriginalFrame ==
    MotionCalled =>
       LET p == call.motion
           f == call.frame
           t == Offset(f)
       IN  /\ Len(call.out) = 1
           /\ f.kind = "NoCrop" => call.out[1] = p
           /\ f.kind = "Area" =>
                 /\ call.out[1] = Between(t, p, try_inverse(t))
                 /\ call.out[1] =
                       << p[1], p[2], p[3], p[4],
                          RSub(RSub(p[5], RMul(p[1], RInt(f.x1))), RMul(p[3], RInt(f.y1))),
                          RSub(RSub(p[6], RMul(p[2], RInt(f.x1))), RMul(p[4], RInt(f.y1))) >>
                 /\ (p[1] = RZero /\ p[2] = RZero /\ p[3] = RZero /\ p[4] = RZero) =>
                       call.out[1] = p

\* A motion with all kinds of terms was given for a crop with an offset in
\* both directions.
C16_Witness ==
    /\ MotionCalled
    /\ call.frame.kind = "Area"
    /\ call.frame.x1 > 0 /\ call.frame.y1 > 0
    /\ \A k \in 1..6 : call.motion[k] # RZero
    /\ call.out[1][5] # call.motion[5]
    /\ call.out[1][6] # call.motion[6]

ShrinkCalled == call.op = "shrink" /\ call.done

\* C19 as stated: shrinking a shrunk value again changes nothing.
C19_Original == ShrinkCalled => shrink(call.alpha, call.out) = call.out

\* C19: shrinking twice by alpha is shrinking once by 2 * alpha; the second
\* shrinkage changes nothing exactly when alpha = 0 or |x| <= |alpha|.
C19_ShrinkTwice ==
    ShrinkCalled =>
       /\ shrink(call.alpha, call.out) = shrink(RMul(RInt(2), call.alpha), call.x)
       /\ (shrink(call.alpha, call.out) = call.out)
             <=> (call.alpha = RZero \/ RLe(RAbs(call.x), RAbs(call.alpha)))

\* A value above twice the threshold was shrunk.
C19_Witness ==
    /\ ShrinkCalled
    /\ call.alpha # RZero
    /\ RLt(RMul(RInt(2), RAbs(call.alpha)), RAbs(call.x))
    /\ call.out # RZero

\* C20: shrink(alpha, -x) = -shrink(alpha, x); the result never has the sign
\* opposite to x, and its magnitude is max(|x| - |alpha|, 0).
C20_ShrinkOdd ==
    ShrinkCalled =>
       LET d == RSub(RAbs(call.x), RAbs(call.alpha)) IN
       /\ shrink(call.alpha, RNeg(call.x)) = RNeg(call.out)
       /\ RLt(RZero, call.x) => RLe(RZero, call.out)
       /\ RLt(call.x, RZero) => RLe(call.out, RZero)
       /\ RAbs(call.out) = IF RLt(d, RZero) THEN RZero ELSE d

\* A negative value was shrunk to a value that is still negative.
C20_Witness ==
    /\ ShrinkCalled
    /\ RLt(call.x, RZero)
    /\ RLt(call.out, RZero)
    /\ call.alpha # RZero

Loaded == wasm.last.call = "load"

\* C13: every stored image has the pixel type of the dataset, which does not
\* change once an image is stored; a load of an image that does not decode,
\* decodes to another type, has an alpha channel or BGR order returns an
\* error and leaves dataset and image_ids as they were; any other load
\* stores the image and its id at the end.
C13_UniformType ==
    /\ [](/\ \A i \in 1..Len(wasm.dataset.imgs) :
                DatasetOf(wasm.dataset.imgs[i]) = wasm.dataset.kind
          /\ Len(wasm.image_ids) = Len(wasm.dataset.imgs)
          /\ wasm.dataset.kind = "Empty" <=> wasm.dataset.imgs = <<>>)
    /\ [][wasm.dataset.kind # "Empty" => wasm'.dataset.kind = wasm.dataset.kind]_vars
    /\ [][(wasm' # wasm /\ wasm'.last.call = "load") =>
             LET f == wasm'.last.file
                 fits == /\ f.decodes
                         /\ DatasetOf(f.variant) # "none"
                         /\ wasm.dataset.kind \in {"Empty", DatasetOf(f.variant)}
             IN  IF fits
                 THEN /\ wasm'.last.kind = "Ok"
                      /\ wasm'.dataset.imgs = Append(wasm.dataset.imgs, f.variant)
                      /\ wasm'.image_ids = Append(wasm.image_ids, wasm'.last.id)
                 ELSE /\ wasm'.last.kind = "Err"
                      /\ wasm'.dataset = wasm.dataset
                      /\ wasm'.image_ids = wasm.image_ids]_vars

\* After an image was stored, the load of an image of another supported type
\* was refused.
C13_Witness ==
    /\ Loaded
    /\ wasm.last.kind = "Err"
    /\ wasm.last.msg = "Images are not all of the same type"
    /\ DatasetOf(wasm.last.file.variant) # "none"
    /\ Len(wasm.dataset.imgs) >= 1

\* C17: a run of the wasm object with an equalize target outside [0, 1] is
\* rejected: nothing is cropped, equalised or registered, and equalize_mean
\* is never called with a target outside [0, 1].
C17_EqualizeRange ==
    wasm.last.call = "run" =>
       /\ InRange(wasm.last.equalize_mean)
       /\ (~InRange(wasm.last.equalize) /\ wasm.dataset.kind # "Empty") =>
             /\ wasm.last.kind = "Err"
             /\ ~wasm.last.cropped
             /\ ~wasm.last.registered

\* The positions of the trace of the command line where an event is.
At(ev, i) == {k \in DOMAIN cli.trace : cli.trace[k] = Event(ev, i)}
Happened(ev) == \E k \in DOMAIN cli.trace : cli.trace[k].ev = ev

Uniform(shapes) == \A i, j \in DOMAIN shapes : shapes[i] = shapes[j]

\* C12: the command line rejects a stack with an image whose dimensions
\* differ from those of the first one before the registration starts: the
\* registration is never called after such a stack was loaded, nor on images
\* that do not all have the same height and width.
C12_DimensionMismatch ==
    Happened("gray_affine") =>
       /\ Uniform([i \in DOMAIN cli.imgs |-> cli.imgs[i].shape])
       /\ Uniform(cli.stack)

\* C18: gray_affine is called only after get_args succeeded, the extension
\* of every path was checked, every image was opened and decoded and the
\* crop, when there is one, succeeded; a failure of one of these ends the
\* program with an error and without a call of gray_affine; no image file is
\* opened before the extension of every path was checked.
C18_ValidationFirst ==
    LET n == Len(cli.images_paths) IN
    /\ \A g \in At("gray_affine", 0) :
          /\ n >= 1
          /\ \E k \in At("args", 0) : k < g
          /\ \A i \in 1..n :
                /\ \E k \in At("extension", i) : k < g
                /\ \E k \in At("open", i) : k < g
          /\ cli.crop.kind # "NoCrop" => \E k \in At("crop", 0) : k < g
    /\ \A o \in DOMAIN cli.trace :
          cli.trace[o].ev \in {"open", "open failed"} =>
             \A i \in 1..n : \E k \in At("extension", i) : k < o
    /\ (Happened("args failed") \/ Happened("extension failed")
          \/ Happened("open failed") \/ Happened("crop failed")) =>
          /\ cli.pc = "exit"
          /\ cli.outcome = "error"
          /\ ~Happened("gray_affine")
    /\ cli.outcome = "ok" => Happened("gray_affine")

\* gray_affine was called on two images or more, cropped and equalised.
C18_Witness ==
    /\ Happened("gray_affine")
    /\ Len(cli.images_paths) >= 2
    /\ cli.crop.kind # "NoCrop"
    /\ cli.equalize.some
    /\ cli.outcome = "ok"

\* The position the motion of a projection sends the representative pixel to.
Warped(motion) ==
    LET m == projection_mat(motion)
        x == RInt(RepPixel[1])
        y == RInt(RepPixel[2])
    IN  << RAdd(RAdd(RMul(m[1][1], x), RMul(m[1][2], y)), m[1][3]),
           RAdd(RAdd(RMul(m[2][1], x), RMul(m[2][2], y)), m[2][3]) >>

\* C21: every entry of the registered images is the sample of the image at
\* the warped position divided by config.image_max.
C21_ImageMaxScaling ==
    (call.op = "project_f32" /\ call.done) =>
       LET pos == Warped(call.motion) IN
       call.out[1] = RDiv(linear(pos[1], pos[2], call.img), call.image_max)

C24_UpdateOrder ==
    [][(loop_state'.nb_iter = loop_state.nb_iter + 1) =>
          LET W == loop_state.imgs_registered
              E == loop_state.errors
              U == loop_state.lagrange_mult_rho
              A_new == loop_state'.old_imgs_a
              E_new == loop_state'.errors
              W_new == loop_state'.imgs_registered
              gn == hist'.last_gn
              moved == [i \in Cols |->
                          MatMul(projection_mat(loop_state.motion_vec[i]),
                                 projection_mat(gn[i].step))]
              inverse_ref == try_inverse(moved[1])
          IN  /\ A_new \in AChoices(MAdd(MAdd(W, E), U))
              /\ config.do_image_correction =>
                    \A i \in Cols :
                       E_new[i] = shrink(<<config.lambda, config.rho>>,
                                         RSub(RSub(A_new[i], W[i]), U[i]))
              /\ hist'.residuals = MSub(MSub(MSub(A_new, W), U), E_new)
              /\ \E inverse \in {inverse_ref} :
                    /\ inverse # NoInverse
                    /\ \A i \in Cols :
                          loop_state'.motion_vec[i] =
                             projection_params(MatMul(inverse, moved[i]))
              /\ W_new = project_f32(imgs, loop_state'.motion_vec)
              /\ loop_state'.lagrange_mult_rho =
                    MAdd(MSub(MAdd(U, W_new), A_new), E_new)
              /\ (continuation' = "Stop") <=>
                    (\/ loop_state.nb_iter >= config.max_iterations
                     \/ ResidualBelow(A_new, loop_state.old_imgs_a,
                                      config.threshold))]_vars

\* A second step of a level returned with image correction, with errors and
\* a dual variable that are not zero, after the reference image and another
\* image moved by different steps.
C24_Witness ==
    /\ config.do_image_correction
    /\ pc = "while"
    /\ loop_state.nb_iter >= 2
    /\ imgs_count >= 2
    /\ \E i \in Cols : loop_state.errors[i] # RZero
    /\ \E i \in Cols : loop_state.lagrange_mult_rho[i] # RZero
    /\ hist.last_gn[1].step # Vector6_zeros
    /\ hist.last_gn[2].step # hist.last_gn[1].step
    /\ loop_state.motion_vec[2] # Vector6_zeros

MarginCalled == call.op = "forwards_compositional_step" /\ call.done

\* C25: a pixel is used by the Gauss-Newton step if and only if
\* border < x < W-1-border and border < y < H-1-border.
C25_BorderExclusion ==
    MarginCalled =>
       LET b == border(call.shape[1], call.shape[2]) IN
       call.used <=> (/\ b < call.x /\ call.x < call.shape[2] - 1 - b
                      /\ b < call.y /\ call.y < call.shape[1] - 1 - b)

TransposeCalled == call.op = "transpose" /\ call.done

SameLength(v) == \A i, j \in DOMAIN v : Len(v[i]) = Len(v[j])

\* C26: transpose of K >= 1 lists of the same length L >= 1 gives L lists of
\* length K with out[l][k] = in[k][l], and transposed twice it gives the
\* input back; inner lists of different lengths make it panic; an empty outer
\* list gives an empty list.
C26_Transpose ==
    TransposeCalled =>
       LET v == call.v IN
       /\ (v # <<>> /\ SameLength(v) /\ Len(v[1]) >= 1) =>
             /\ call.out.kind = "Ok"
             /\ Len(call.out.value) = Len(v[1])
             /\ \A l \in 1..Len(v[1]) :
                   /\ Len(call.out.value[l]) = Len(v)
                   /\ \A k \in 1..Len(v) : call.out.value[l][k] = v[k][l]
             /\ call.twice = Returned(v)
       /\ ~SameLength(v) => call.out.kind = "panic"
       /\ v = <<>> => call.out = Returned(<<>>)

\* Two lists of two different entries, not symmetric, were transposed.
C26_Witness ==
    /\ TransposeCalled
    /\ call.v = << <<"p", "q">>, <<"p", "p">> >>
    /\ call.out = Returned(<< <<"p", "p">>, <<"q", "p">> >>)
    /\ call.twice = Returned(call.v)

GrayCalled == call.op = "rgb_to_gray" /\ call.done

\* C27: rgb_to_gray gives for every pixel the luminance
\* 0.2989 r + 0.5870 g + 0.1140 b as a u8: black gives 0, a gray pixel
\* r = g = b = v gives v up to rounding, and the output has the shape of the
\* red channel.
C27_Luminance ==
    GrayCalled =>
       /\ call.out.shape = call.red.shape
       /\ \A i \in DOMAIN call.red.data :
             LET r == call.red.data[i]
                 g == call.green.data[i]
                 b == call.blue.data[i]
                 lum == Rat(2989 * r + 5870 * g + 1140 * b, 10000)
             IN  /\ call.out.data[i] \in 0..255
                 /\ RLe(RInt(call.out.data[i]), lum)
                 /\ RLt(lum, RInt(call.out.data[i] + 1))
                 /\ (r = 0 /\ g = 0 /\ b = 0) => call.out.data[i] = 0
                 /\ (r = g /\ g = b) => Abs(call.out.data[i] - r) <= 1

\* C28: image_ids has as many entries as the dataset holds images, none for an
\* empty dataset; a load that succeeds adds the id it was given at the end and
\* one image; a load that fails and a run leave the ids and the number of
\* images as they were, so that the k-th id is the id of the k-th image
\* loaded with success.
C28_ImageIds ==
    /\ [](/\ Len(wasm.image_ids) = Len(wasm.dataset.imgs)
          /\ wasm.dataset.kind = "Empty" => wasm.image_ids = <<>>)
    /\ [][(wasm' # wasm) =>
            IF wasm'.last.call = "load" /\ wasm'.last.kind = "Ok"
            THEN /\ wasm'.image_ids = wasm.image_ids \o <<wasm'.last.id>>
                 /\ Len(wasm'.dataset.imgs) = Len(wasm.dataset.imgs) + 1
            ELSE /\ wasm'.image_ids = wasm.image_ids
                 /\ Len(wasm'.dataset.imgs) = Len(wasm.dataset.imgs)]_vars

\* An image was loaded under one id, and then the load of undecodable bytes
\* under another id failed.
C28_Witness ==
    /\ wasm.pc = "ready"
    /\ wasm.image_ids = <<"id2">>
    /\ Len(wasm.dataset.imgs) = 1
    /\ wasm.last.call = "load"
    /\ wasm.last.kind = "Err"
    /\ ~wasm.last.file.decodes
    /\ wasm.last.id = "id1"

\* C29: a run leaves dataset and image_ids as they were; after a run that
\* returned an error or panicked crop_registered is empty; after a run that
\* succeeded it holds one image per loaded image, in load order, each made by
\* this run (cropped with its frame).
C29_RunFrame ==
    [][(wasm' # wasm /\ wasm'.last.call = "run") =>
          /\ wasm'.dataset = wasm.dataset
          /\ wasm'.image_ids = wasm.image_ids
          /\ IF wasm'.last.kind = "Ok"
             THEN /\ Len(wasm'.crop_registered) = Len(wasm.dataset.imgs)
                  /\ \A k \in 1..Len(wasm.dataset.imgs) :
                        /\ wasm'.crop_registered[k].source = k
                        /\ wasm'.crop_registered[k].crop = wasm'.last.crop
             ELSE wasm'.crop_registered = <<>>]_vars

\* A run with a crop succeeded on a dataset of two images.
C29_Witness ==
    /\ wasm.last.call = "run"
    /\ wasm.last.kind = "Ok"
    /\ wasm.last.crop.kind = "Area"
    /\ Len(wasm.dataset.imgs) = 2
    /\ Len(wasm.crop_registered) = 2

\* A level is over: its loop stopped, or one of its steps panicked.
LevelStopped == pc = "while" /\ continuation = "Stop"
LevelPanicked == pc = "done" /\ hist.last_stop \in {"cholesky", "singular"}

====
